---------------------------- MODULE Spec2Model ----------------------------
(***************************************************************************)
(* A model of skew's ARN engine (skew/arn/__init__.py): the parser and     *)
(* serialiser of the six-field locator, the six ARNComponent levels with   *)
(* their choices/match functions, and the chain of enumerate generators    *)
(* that a consumer drives with next().                                     *)
(*                                                                         *)
(* Python strings are sequences of one-character strings, so that split,   *)
(* join, startswith and regular-expression search are computed, not        *)
(* assumed.  Python's None is the sequence <<"None">>, whose only element  *)
(* is not a character, so it equals no string.                             *)
(***************************************************************************)
EXTENDS Integers, Sequences, FiniteSets, TLC

VARIABLES
    arn_string,     \* the argument of ARN(...)
    components,     \* ARN._components: a sequence of component objects, or None
    query,          \* ARN.query
    raised,         \* the exception the constructor raised, or "none"
    repr_out,       \* the last result of repr(arn), or None
    account_map,    \* Account._account_map, as (account id, profile) pairs in key order
    gen,            \* the traversals started by iter(arn): traversal id -> generator state
    probe           \* the last direct call of a level's method, and its result

vars == <<arn_string, components, query, raised, repr_out, account_map, gen, probe>>

---------------------------------------------------------------------------
(* Strings *)

PyNone == <<"None">>
STAR == <<"*">>

Range(s) == {s[i] : i \in 1..Len(s)}

Max(a, b) == IF a >= b THEN a ELSE b

\* str.split(sep, maxsplit): split from the left at most maxsplit times
\* (a negative maxsplit is no limit).
RECURSIVE Split(_, _, _)
Split(s, sep, maxsplit) ==
    IF maxsplit = 0 \/ sep \notin Range(s)
    THEN <<s>>
    ELSE LET i == CHOOSE k \in 1..Len(s) :
                      s[k] = sep /\ \A j \in 1..(k - 1) : s[j] # sep
         IN  <<SubSeq(s, 1, i - 1)>>
                 \o Split(SubSeq(s, i + 1, Len(s)), sep, maxsplit - 1)

\* sep.join(parts)
RECURSIVE Join(_, _)
Join(parts, sep) ==
    IF parts = <<>> THEN <<>>
    ELSE IF Len(parts) = 1 THEN parts[1]
    ELSE parts[1] \o <<sep>> \o Join(Tail(parts), sep)

\* s.startswith(prefix)
StartsWith(s, prefix) ==
    Len(prefix) <= Len(s) /\ SubSeq(s, 1, Len(prefix)) = prefix

---------------------------------------------------------------------------
(* The locator: ARN.__init__, _build_components_from_string, __repr__ *)

\* The component classes are one-element sequences, so that the fill value
\* '*' which zip_longest puts in their place can be told from them.
ComponentClasses ==
    << <<"Scheme">>, <<"Provider">>, <<"Service">>,
       <<"Region">>, <<"Account">>, <<"Resource">> >>

\* Mutant of ZipLongest: the builtin zip, which stops at the shorter list.
ZipShortest(a, b, fill) ==
    [i \in 1..(IF Len(a) <= Len(b) THEN Len(a) ELSE Len(b)) |-> <<a[i], b[i]>>]

\* six.moves.zip_longest(a, b, fillvalue=fill)
ZipLongest(a, b, fill) ==
    [i \in 1..Max(Len(a), Len(b)) |->
        << IF i <= Len(a) THEN a[i] ELSE fill,
           IF i <= Len(b) THEN b[i] ELSE fill >>]

\* The maxsplit argument of arn_string.split(':', 6).
ArnMaxSplit == 6

\* jmespath.compile(expression): the compiled query keeps its expression.
NoQuery == [compiled |-> FALSE, expression |-> PyNone]
JmesCompile(expression) == [compiled |-> TRUE, expression |-> expression]

\* c(n, self) for a pair of zip_longest: a component object.  Calling the
\* fill value '*' (a str) raises TypeError.
IsClass(c) == c \in Range(ComponentClasses)
NewComponent(c, n) == [cls |-> c, pattern |-> n]

\* ARN._build_components_from_string: what it leaves in the object, and the
\* exception it raises ("none": it returns).
BuildComponentsFromString(s) ==
    LET has_query == "|" \in Range(s)
        halves    == Split(s, "|", -1)
    IN  IF has_query /\ Len(halves) # 2
        THEN \* arn_string, query = arn_string.split('|') with three or more parts
             [raised |-> "ValueError", components |-> PyNone, query |-> NoQuery]
        ELSE LET arn   == IF has_query THEN halves[1] ELSE s
                 q     == IF has_query THEN JmesCompile(halves[2]) ELSE NoQuery
                 pairs == ZipLongest(ComponentClasses,
                                     Split(arn, ":", ArnMaxSplit), STAR)
             IN  IF \E i \in DOMAIN pairs : ~IsClass(pairs[i][1])
                 THEN [raised |-> "TypeError", components |-> PyNone, query |-> q]
                 ELSE [raised     |-> "none",
                       components |-> [i \in DOMAIN pairs |->
                                          NewComponent(pairs[i][1], pairs[i][2])],
                       query      |-> q]

\* Mutant of ComponentRepr: repr(self.pattern), the quoted pattern.
ComponentReprQuoted(c) == <<"'">> \o c.pattern \o <<"'">>

\* ARNComponent.__repr__
ComponentRepr(c) == c.pattern

\* ARN.__repr__: ':'.join([str(c) for c in self._components])
ArnRepr(comps) == Join([i \in DOMAIN comps |-> ComponentRepr(comps[i])], ":")

---------------------------------------------------------------------------
(* Regular expressions: re.compile and regex.search for the patterns the   *)
(* model uses: literal characters, '.', a trailing '*' on either, and the  *)
(* anchors '^' (first) and '$' (last).                                     *)

\* re.compile(regex) raises re.error when a '*' has nothing to repeat.
RECURSIVE ReCompiles(_)
ReCompiles(regex) ==
    IF regex = <<>> THEN TRUE
    ELSE IF regex[1] = "*" THEN FALSE
    ELSE IF Len(regex) >= 2 /\ regex[2] = "*" /\ regex[1] # "^"
         THEN ReCompiles(SubSeq(regex, 3, Len(regex)))
    ELSE ReCompiles(Tail(regex))

CharMatches(c, ch) == c = "." \/ c = ch

\* Does regex match a prefix of s?
RECURSIVE MatchHere(_, _)
MatchHere(regex, s) ==
    IF regex = <<>> THEN TRUE
    ELSE IF Len(regex) >= 2 /\ regex[2] = "*"
         THEN \E k \in 0..Len(s) :
                 /\ \A j \in 1..k : CharMatches(regex[1], s[j])
                 /\ MatchHere(SubSeq(regex, 3, Len(regex)), SubSeq(s, k + 1, Len(s)))
    ELSE IF regex = <<"$">> THEN s = <<>>
    ELSE /\ s # <<>>
         /\ CharMatches(regex[1], s[1])
         /\ MatchHere(Tail(regex), Tail(s))

\* regex.search(choice) is not None: a match starting anywhere in choice.
Search(regex, choice) ==
    IF regex # <<>> /\ regex[1] = "^"
    THEN MatchHere(Tail(regex), choice)
    ELSE \E k \in 0..Len(choice) :
            MatchHere(regex, SubSeq(choice, k + 1, Len(choice)))

---------------------------------------------------------------------------
(* The resource registry (skew.resources): all_services, all_types and     *)
(* find_resource_class.  The registry's contents are data: three services  *)
(* of the one provider, one of them in Region's restricted set.            *)

SchemeArn == <<"a", "r", "n">>
ProviderAws == <<"a", "w", "s">>
Cloudwatch == <<"c", "l", "o", "u", "d", "w", "a", "t", "c", "h">>
Kinesis == <<"k", "i", "n", "e", "s", "i", "s">>
Redshift == <<"r", "e", "d", "s", "h", "i", "f", "t">>
Glacier == <<"g", "l", "a", "c", "i", "e", "r">>
Ec2 == <<"e", "c", "2">>
TypeAlarm == <<"a", "l", "a", "r", "m">>
TypeStream == <<"s", "t", "r", "e", "a", "m">>
TypeInstance == <<"i", "n", "s", "t", "a", "n", "c", "e">>
TypeVolume == <<"v", "o", "l", "u", "m", "e">>

\* skew.resources.all_services(provider_name)
AllServices(provider_name) ==
    IF provider_name = ProviderAws THEN <<Cloudwatch, Ec2, Kinesis>> ELSE <<>>

\* skew.resources.all_types(provider_name, service_name)
AllTypes(provider_name, service_name) ==
    IF provider_name # ProviderAws THEN <<>>
    ELSE IF service_name = Cloudwatch THEN <<TypeAlarm>>
    ELSE IF service_name = Ec2 THEN <<TypeInstance, TypeVolume>>
    ELSE IF service_name = Kinesis THEN <<TypeStream>>
    ELSE <<>>

\* skew.resources.find_resource_class(resource_path) finds a class exactly
\* for the (provider, service, type) triples the registry lists.
RegistryKnows(provider_name, service_name, resource_type) ==
    resource_type \in Range(AllTypes(provider_name, service_name))

---------------------------------------------------------------------------
(* The levels: ARNComponent and its six subclasses *)

\* "if context:" is false for None and for the empty list alike, and no
\* level reads its context outside that test: both are the empty sequence.
NoContext == <<>>
Truthy(context) == context # <<>>

\* Mutant of SplitResource: the ':' is looked for before the '/'.
SplitResourceColonFirst(resource) ==
    IF ":" \in Range(resource)
    THEN LET p == Split(resource, ":", 1) IN <<p[1], p[2]>>
    ELSE IF "/" \in Range(resource)
    THEN LET p == Split(resource, "/", 1) IN <<p[1], p[2]>>
    ELSE <<resource, PyNone>>

\* Resource._split_resource(resource): (resource_type, resource_id)
SplitResource(resource) ==
    IF "/" \in Range(resource)
    THEN LET p == Split(resource, "/", 1) IN <<p[1], p[2]>>
    ELSE IF ":" \in Range(resource)
    THEN LET p == Split(resource, ":", 1) IN <<p[1], p[2]>>
    ELSE <<resource, PyNone>>

\* Scheme.choices, Provider.choices
SchemeChoices == <<SchemeArn>>
ProviderChoices == <<ProviderAws>>

\* Service.choices(context)
ServiceChoices(comps, context) ==
    LET provider == IF Truthy(context) THEN context[2] ELSE comps[2].pattern
    IN  AllServices(provider)

\* Region._region_names_limited, Region._all_region_names
RegionNamesLimited ==
    << <<"u","s","-","e","a","s","t","-","1">>,
       <<"u","s","-","w","e","s","t","-","2">>,
       <<"e","u","-","w","e","s","t","-","1">>,
       <<"a","p","-","s","o","u","t","h","e","a","s","t","-","1">>,
       <<"a","p","-","s","o","u","t","h","e","a","s","t","-","2">>,
       <<"a","p","-","n","o","r","t","h","e","a","s","t","-","1">> >>

AllRegionNames ==
    << <<"u","s","-","e","a","s","t","-","1">>,
       <<"u","s","-","w","e","s","t","-","1">>,
       <<"u","s","-","w","e","s","t","-","2">>,
       <<"e","u","-","w","e","s","t","-","1">>,
       <<"e","u","-","c","e","n","t","r","a","l","-","1">>,
       <<"a","p","-","s","o","u","t","h","e","a","s","t","-","1">>,
       <<"a","p","-","s","o","u","t","h","e","a","s","t","-","2">>,
       <<"a","p","-","n","o","r","t","h","e","a","s","t","-","1">>,
       <<"s","a","-","e","a","s","t","-","1">> >>

\* The keys of Region._service_region_map (every value is the limited list).
RestrictedServices == {Redshift, Glacier, Kinesis}

\* A dictionary key is a str, or some other object: an ARNComponent defines
\* neither __eq__ nor __hash__, so it equals no str key.
StrKey(s) == [is_str |-> TRUE, str |-> s]
ObjectKey(component) == [is_str |-> FALSE, str |-> component.pattern]

\* Region._service_region_map.get(key, default)
ServiceRegionMapGet(key, default) ==
    IF key.is_str /\ key.str \in RestrictedServices
    THEN RegionNamesLimited
    ELSE default

\* The lookup key of Region.choices: context[2], or self._arn.service.
RegionServiceKey(comps, context) ==
    IF Truthy(context) THEN StrKey(context[3]) ELSE ObjectKey(comps[3])

\* Region.choices(context)
RegionChoices(comps, context) ==
    ServiceRegionMapGet(RegionServiceKey(comps, context), AllRegionNames)

\* Account.choices: list(self._account_map.keys())
AccountChoices(amap) == [i \in DOMAIN amap |-> amap[i][1]]

\* The registry's answer that Resource.choices starts from.
ResourceRegistryTypes(comps, context) ==
    LET service == IF Truthy(context) THEN context[3] ELSE comps[3].pattern
    IN  AllTypes(comps[2].pattern, service)

\* Resource.choices(context)
ResourceChoices(comps, context) ==
    LET all_resources == ResourceRegistryTypes(comps, context)
    IN  IF all_resources = <<>> THEN <<STAR>> ELSE all_resources

\* self.choices(context) of the level at position level (1: Scheme .. 6: Resource)
Choices(level, comps, amap, context) ==
    CASE level = 1 -> SchemeChoices
      [] level = 2 -> ProviderChoices
      [] level = 3 -> ServiceChoices(comps, context)
      [] level = 4 -> RegionChoices(comps, context)
      [] level = 5 -> AccountChoices(amap)
      [] level = 6 -> ResourceChoices(comps, context)

\* The regular expression ARNComponent.match compiles for a pattern.
RegexOf(pattern) == IF pattern = STAR THEN <<".", "*">> ELSE pattern

\* Mutant of SearchFilter: a pattern that finds nothing selects everything.
SearchFilterOrAll(choices, pattern) ==
    LET found == SelectSeq(choices, LAMBDA choice : Search(RegexOf(pattern), choice))
    IN  IF found = <<>> THEN choices ELSE found

\* The loop of ARNComponent.match: the choices the regex finds a match in.
SearchFilter(choices, pattern) ==
    SelectSeq(choices, LAMBDA choice : Search(RegexOf(pattern), choice))

\* The context Resource.match hands to ARNComponent.match:
\* super(Resource, self).match(resource_type) passes none.
ResourceMatchContext(context) == NoContext

\* Mutant of MatchPattern: the Resource level searches for its whole token.
MatchPatternWhole(level, pattern) == pattern

\* The pattern and the context the base ARNComponent.match works with:
\* Resource.match narrows the pattern to its type portion first.
MatchPattern(level, pattern) ==
    IF level = 6 THEN SplitResource(pattern)[1] ELSE pattern

MatchContext(level, context) ==
    IF level = 6 THEN ResourceMatchContext(context) ELSE context

\* The choices list that level.match(pattern, context) filters.
MatchCandidates(level, comps, amap, context) ==
    Choices(level, comps, amap, MatchContext(level, context))

\* level.match(pattern, context), for a pattern that compiles
Match(level, comps, amap, pattern, context) ==
    SearchFilter(MatchCandidates(level, comps, amap, context),
                 MatchPattern(level, pattern))

\* Mutant of Matches: a token other than '*' is taken as the one match,
\* without a look at the choices.
MatchesLiteral(level, comps, amap, context) ==
    IF comps[level].pattern = STAR
    THEN Match(level, comps, amap, comps[level].pattern, context)
    ELSE <<MatchPattern(level, comps[level].pattern)>>

\* level.matches(context)
Matches(level, comps, amap, context) ==
    Match(level, comps, amap, comps[level].pattern, context)

\* Mutant of Complete: only the candidates the level's own pattern matches
\* are offered.
CompleteWithinMatches(level, comps, amap, prefix, context) ==
    SelectSeq(Matches(level, comps, amap, context),
              LAMBDA c : StartsWith(c, prefix))

\* level.complete(prefix, context)
Complete(level, comps, amap, prefix, context) ==
    SelectSeq(Choices(level, comps, amap, context),
              LAMBDA c : StartsWith(c, prefix))

---------------------------------------------------------------------------
(* Inputs of the parser specification: every string made of at most        *)
(* MaxFields colon-free fields joined by ':', with or without a            *)
(* '|expression' suffix.                                                   *)

MaxFields == 7

FieldTokens == { <<>>, <<"a", "b">>, STAR }

Suffixes == { <<>>, <<"|", "q">>, <<"|", "q", "|", "r">> }

FieldLists == UNION { [1..n -> FieldTokens] : n \in 1..MaxFields }

ParseInputs == { Join(fs, ":") \o sfx : fs \in FieldLists, sfx \in Suffixes }

\* Variables a specification does not use keep these values.
NoGen == <<>>
NoProbe == [op |-> "none"]

InitParse ==
    /\ arn_string \in ParseInputs
    /\ components = PyNone
    /\ query = NoQuery
    /\ raised = "new"
    /\ repr_out = PyNone
    /\ account_map = <<>>
    /\ gen = NoGen
    /\ probe = NoProbe

\* ARN(arn_string): ARN.__init__
Construct ==
    /\ raised = "new"
    /\ LET built == BuildComponentsFromString(arn_string)
       IN  /\ components' = built.components
           /\ query' = built.query
           /\ raised' = built.raised
    /\ UNCHANGED <<arn_string, repr_out, account_map, gen, probe>>

\* repr(arn) on a constructed locator
Repr ==
    /\ raised = "none"
    /\ repr_out = PyNone
    /\ repr_out' = ArnRepr(components)
    /\ UNCHANGED <<arn_string, components, query, raised, account_map, gen, probe>>

NextParse == Construct \/ Repr

SpecParse == InitParse /\ [][NextParse]_vars

---------------------------------------------------------------------------
(* Locators and account maps of the query and traversal specifications *)

UsEast1 == AllRegionNames[1]
EuCentral1 == AllRegionNames[5]
UsWest == <<"u", "s", "-", "w", "e", "s", "t">>
Acct123 == <<"1", "2", "3">>
Acct4123 == <<"4", "1", "2", "3">>
Acct999 == <<"9", "9", "9">>
S3 == <<"s", "3">>
\* The identifiers of the items the provider holds.
MyAlarm == <<"m", "y", "-", "a", "l", "a", "r", "m">>
OtherId == <<"b">>
AlarmMyAlarm == TypeAlarm \o <<"/">> \o MyAlarm
StreamB == <<"s", "t", "r", "e", "a", "m", "/", "b">>
VolumeB == <<"v", "o", "l", "u", "m", "e", "/", "b">>
AlarmStar == <<"a", "l", "a", "r", "m", "/", "*">>
\* Shell-style globs, which are no regular expressions: re.compile fails.
GlobEast == <<"*", "e", "a", "s", "t">>
GlobAlarm == <<"*", "a", "l", "a", "r", "m">>

\* The account maps Account._build_account_map may find in the profiles.
AccountMaps ==
    { <<>>,
      << <<Acct123, "prod">> >>,
      << <<Acct123, "prod">>, <<Acct4123, "dev">> >> }

\* The strings 'scheme:provider:service:region:account:resource' over the
\* given field values.
LocatorStrings(schemes, providers, services, regions, accounts, resources) ==
    { Join(<<sc, pr, sv, rg, ac, rs>>, ":") :
        sc \in schemes, pr \in providers, sv \in services,
        rg \in regions, ac \in accounts, rs \in resources }

\* The state after ARN(s) returned, with the profiles giving account map m.
Constructed(s, m) ==
    LET built == BuildComponentsFromString(s)
    IN  /\ built.raised = "none"
        /\ arn_string = s
        /\ components = built.components
        /\ query = built.query
        /\ raised = "none"
        /\ repr_out = PyNone
        /\ account_map = m

---------------------------------------------------------------------------
(* Direct calls of choices and match on a level of a constructed locator.   *)
(* The calls change nothing in the locator, so one call per behaviour      *)
(* covers them all.                                                        *)

QueryLocators ==
    LocatorStrings({SchemeArn}, {ProviderAws, STAR},
                   {STAR, Cloudwatch, Kinesis, Redshift, Glacier, Ec2, S3, <<"c">>},
                   {STAR, UsEast1}, {STAR, Acct999},
                   {STAR, TypeAlarm, AlarmMyAlarm})

\* The contexts a level is called with: none, or the values resolved above it.
QueryContexts(level) ==
    {NoContext} \cup
    { SubSeq(<<SchemeArn, ProviderAws, sv, rg, Acct123>>, 1, level - 1) :
        sv \in {Cloudwatch, Kinesis, Redshift, Glacier, Ec2},
        rg \in {UsEast1, EuCentral1} }

\* Resource tokens of a type portion alone, and with an id after '/' or ':'.
ResourceTokens ==
    { t \o sep \o id :
        t   \in {TypeAlarm, <<"a">>, <<"e">>, STAR},
        sep \in {<<"/">>, <<":">>},
        id  \in {MyAlarm, OtherId, STAR, <<"a", "/", "b">>} }
    \cup {TypeAlarm, <<"a">>, <<"e">>}

\* The patterns a level is asked to match: '*', its own, and at the
\* Resource level the resource tokens.
QueryPatterns(level) ==
    {STAR, components[level].pattern}
        \cup (IF level = 6 THEN ResourceTokens ELSE {})

InitQuery ==
    /\ \E s \in QueryLocators, m \in AccountMaps : Constructed(s, m)
    /\ gen = NoGen
    /\ probe = NoProbe

\* level.choices(context)
CallChoices ==
    /\ probe = NoProbe
    /\ \E level \in 1..6 : \E context \in QueryContexts(level) :
          probe' = [op      |-> "choices",
                    level   |-> level,
                    pattern |-> PyNone,
                    context |-> context,
                    result  |-> Choices(level, components, account_map, context)]
    /\ UNCHANGED <<arn_string, components, query, raised, repr_out, account_map, gen>>

\* level.match(pattern, context)
CallMatch ==
    /\ probe = NoProbe
    /\ \E level \in 1..6 : \E context \in QueryContexts(level) :
       \E pattern \in QueryPatterns(level) :
          /\ ReCompiles(RegexOf(MatchPattern(level, pattern)))
          /\ probe' = [op      |-> "match",
                       level   |-> level,
                       pattern |-> pattern,
                       context |-> context,
                       result  |-> Match(level, components, account_map,
                                         pattern, context)]
    /\ UNCHANGED <<arn_string, components, query, raised, repr_out, account_map, gen>>

\* The prefixes a level is asked to complete: none, and beginnings of
\* candidates of every level.
CompletePrefixes ==
    { <<>>, <<"a">>, <<"e">>, <<"c", "l">>, <<"u", "s", "-", "w">>, <<"1">> }

\* level.complete(prefix, context)
CallComplete ==
    /\ probe = NoProbe
    /\ \E level \in 1..6 : \E context \in QueryContexts(level) :
       \E prefix \in CompletePrefixes :
          probe' = [op      |-> "complete",
                    level   |-> level,
                    pattern |-> prefix,
                    context |-> context,
                    result  |-> Complete(level, components, account_map,
                                         prefix, context)]
    /\ UNCHANGED <<arn_string, components, query, raised, repr_out, account_map, gen>>

NextQuery == CallChoices \/ CallMatch \/ CallComplete

SpecQuery == InitQuery /\ [][NextQuery]_vars


---------------------------------------------------------------------------
(* Direct calls of Resource._split_resource, which reads nothing but its   *)
(* argument, on the locator ARN() builds by default: every token of up to  *)
(* MaxTokenLen characters out of a letter, '/' and ':', and the tokens of  *)
(* the alarm resource.                                                     *)

MaxTokenLen == 4

TokenChars == {"a", "/", ":"}

AlarmColonMyAlarm == TypeAlarm \o <<":">> \o MyAlarm

SplitTokens ==
    UNION { [1..n -> TokenChars] : n \in 0..MaxTokenLen }
        \cup {TypeAlarm, AlarmMyAlarm, AlarmColonMyAlarm}

\* The arn_string default of ARN.__init__: 'arn:aws:*:*:*:*'
DefaultArnString == Join(<<SchemeArn, ProviderAws, STAR, STAR, STAR, STAR>>, ":")

InitSplit ==
    /\ Constructed(DefaultArnString, <<>>)
    /\ gen = NoGen
    /\ probe = NoProbe

\* arn.resource._split_resource(token)
CallSplitResource ==
    /\ \E token \in SplitTokens :
          probe' = [op      |-> "split",
                    level   |-> 6,
                    pattern |-> token,
                    context |-> NoContext,
                    result  |-> SplitResource(token)]
    /\ UNCHANGED <<arn_string, components, query, raised, repr_out, account_map, gen>>

NextSplit == CallSplitResource

SpecSplit == InitSplit /\ [][NextSplit]_vars

---------------------------------------------------------------------------
(* The collaborators of Resource.enumerate: the resource classes' Meta,    *)
(* the session, and Endpoint.call.                                         *)


\* resource_cls.Meta of find_resource_class('.'.join([provider, service,
\* resource_type])): filter_name (None: the API has no id filter),
\* filter_type and enum_spec.  cloudwatch.alarm is skew.resources.aws.
\* cloudwatch.Alarm; the other classes are data of the registry.
Meta(service_name, resource_type) ==
    CASE resource_type = TypeAlarm ->
            [filter_name |-> "alarm_names", filter_type |-> "list",
             enum_spec |-> <<"DescribeAlarms", "MetricAlarms", "None">>]
      [] resource_type = TypeInstance ->
            [filter_name |-> "instance_ids", filter_type |-> "list",
             enum_spec |-> <<"DescribeInstances", "Reservations[].Instances[]", "None">>]
      [] resource_type = TypeVolume ->
            [filter_name |-> "volume_id", filter_type |-> "str",
             enum_spec |-> <<"DescribeVolumes", "Volumes", "None">>]
      [] OTHER ->
            [filter_name |-> "None", filter_type |-> "None",
             enum_spec |-> <<"ListStreams", "StreamNames", "None">>]

\* What the provider holds: two items in us-east-1, one in us-west-2, none
\* elsewhere, whatever the service, account and type.
Inventory(region) ==
    IF region = UsEast1 THEN <<[id |-> MyAlarm], [id |-> OtherId]>>
    ELSE IF region = AllRegionNames[3] THEN <<[id |-> OtherId]>>
    ELSE <<>>

\* The id-filter argument of a call: kwargs[filter_name], or NoFilter.
NoFilter == [name |-> "None", value |-> <<>>]

\* endpoint.call(enum_op, query=path, **kwargs): the items of the region,
\* narrowed by the provider to the ids of the filter argument, if any.
EndpointCall(region, filter) ==
    IF filter = NoFilter THEN Inventory(region)
    ELSE SelectSeq(Inventory(region),
                   LAMBDA d : d.id \in (IF filter.list THEN Range(filter.value)
                                        ELSE {filter.value}))

\* resource_cls.filter(resource_id, data): the item's identifier is the id.
ClassFilter(resource_id, d) == d.id = resource_id

\* "if resource_id and resource_id != '*'"
ExplicitId(resource_id) ==
    resource_id # PyNone /\ resource_id # <<>> /\ resource_id # STAR

\* Mutant of FilterArgs: the id always goes as a one-element list.
FilterArgsAlwaysList(meta, resource_id) ==
    IF ExplicitId(resource_id) /\ meta.filter_name # "None"
    THEN [name  |-> meta.filter_name,
          list  |-> TRUE,
          value |-> <<resource_id>>]
    ELSE NoFilter

\* The kwargs filter entry Resource.enumerate builds for a resource class.
FilterArgs(meta, resource_id) ==
    IF ExplicitId(resource_id) /\ meta.filter_name # "None"
    THEN [name  |-> meta.filter_name,
          list  |-> meta.filter_type = "list",
          value |-> IF meta.filter_type = "list" THEN <<resource_id>>
                    ELSE resource_id]
    ELSE NoFilter

\* do_client_side_filtering
ClientSideFiltering(meta, resource_id) ==
    ExplicitId(resource_id) /\ meta.filter_name = "None"

---------------------------------------------------------------------------
(* A traversal: the generators ARN.__iter__ -> Scheme.enumerate -> ... ->  *)
(* Resource.enumerate, run by the consumer's next().  A frame of the stack *)
(* is one enumerate generator: its list of matches and the position of its *)
(* for loop.  The Resource frame also holds the items of the current       *)
(* endpoint.call and the position in them.                                 *)

NoError == [type |-> "none", raised_by |-> "none"]

NewGen ==
    [status  |-> "created",   \* created, running, suspended (at a yield), done, raised
     context |-> <<>>,        \* the context list of ARN.__iter__
     stack   |-> <<>>,
     yielded |-> <<>>,        \* the resources the consumer received
     calls   |-> <<>>,        \* the collaborator calls made, in order
     requests |-> 0,          \* the next() calls of the consumer so far
     error   |-> NoError]     \* the exception the consumer received

Top(g) == g.stack[Len(g.stack)]

SetTop(g, frame) == [g EXCEPT !.stack[Len(g.stack)] = frame]

LogCall(g, fn, arg, err) ==
    [g EXCEPT !.calls = Append(@, [fn |-> fn, arg |-> arg, raised |-> err])]

\* Mutant of Raise: a generator catches the exception and ends quietly.
RaiseSwallowed(g, err) ==
    [g EXCEPT !.status = "done", !.stack = <<>>]

\* An exception leaves every enumerate generator of the chain (none has a
\* try statement) and reaches the consumer; the context is not popped.
Raise(g, err) ==
    [g EXCEPT !.status = "raised", !.error = err, !.stack = <<>>]

\* Does the pattern of the level compile (re.compile in ARNComponent.match)?
PatternCompiles(level) ==
    ReCompiles(RegexOf(MatchPattern(level, components[level].pattern)))

ReError == [type |-> "re.error", raised_by |-> "re.compile"]

\* Mutant of EnterLevel: the for loop takes the matches last to first.
EnterLevelBackwards(g, level) ==
    IF ~PatternCompiles(level) THEN Raise(g, ReError)
    ELSE LET matches == Matches(level, components, account_map, g.context)
         IN  [g EXCEPT !.stack = Append(@,
                [level   |-> level,
                 matches |-> [i \in DOMAIN matches |-> matches[Len(matches) + 1 - i]],
                 i       |-> 0])]

\* The first lines of Scheme/Provider/Service/Region/Account.enumerate:
\* "for match in self.matches(context)".
EnterLevel(g, level) ==
    IF ~PatternCompiles(level) THEN Raise(g, ReError)
    ELSE [g EXCEPT !.stack = Append(@,
            [level   |-> level,
             matches |-> Matches(level, components, account_map, g.context),
             i       |-> 0])]

\* Account.map_account_to_profile(account): self._account_map[account]
HasAccount(account) == \E k \in DOMAIN account_map : account_map[k][1] = account
MapAccountToProfile(account) ==
    account_map[CHOOSE k \in DOMAIN account_map : account_map[k][1] = account][2]

AccountError == [type |-> "KeyError", raised_by |-> "map_account_to_profile"]
SessionError == [type |-> "CollaboratorError", raised_by |-> "session"]
RegistryError == [type |-> "KeyError", raised_by |-> "find_resource_class"]
EndpointError == [type |-> "CollaboratorError", raised_by |-> "endpoint.call"]

\* Resource.enumerate up to its for loop: the account's profile, the
\* session, the service and endpoint, the split of the pattern, and
\* self.matches(context).
EnterResource(g, session_ok) ==
    LET account == g.context[5]
    IN  IF ~HasAccount(account)
        THEN Raise(LogCall(g, "map_account_to_profile", account, AccountError),
                   AccountError)
        ELSE
        LET profile == MapAccountToProfile(account)
            g1 == LogCall(g, "map_account_to_profile", account, NoError)
        IN  IF ~session_ok
            THEN Raise(LogCall(g1, "session", profile, SessionError), SessionError)
            ELSE
            LET g2 == LogCall(g1, "session", profile, NoError)
            IN  IF ~PatternCompiles(6) THEN Raise(g2, ReError)
                ELSE [g2 EXCEPT !.stack = Append(@,
                        [level       |-> 6,
                         matches     |-> Matches(6, components, account_map, g.context),
                         i           |-> 0,
                         profile     |-> profile,
                         resource_id |-> SplitResource(components[6].pattern)[2],
                         registry    |-> ResourceRegistryTypes(components,
                                             MatchContext(6, g.context)),
                         candidates  |-> MatchCandidates(6, components, account_map,
                                                         g.context),
                         resource_type |-> PyNone,
                         client_side |-> FALSE,
                         data        |-> <<>>,
                         j           |-> 0])]

\* One round of the for loop of Resource.enumerate up to its inner loop:
\* the resource class of the next type, its kwargs, and endpoint.call.
EnumerateNextType(g, call_ok) ==
    LET f             == Top(g)
        provider      == g.context[2]
        service_name  == g.context[3]
        region        == g.context[4]
        resource_type == f.matches[f.i + 1]
        path          == <<provider, service_name, resource_type>>
    IN  IF ~RegistryKnows(provider, service_name, resource_type)
        THEN Raise(LogCall(g, "find_resource_class", path, RegistryError),
                   RegistryError)
        ELSE
        LET meta   == Meta(service_name, resource_type)
            filter == FilterArgs(meta, f.resource_id)
            arg    == [path |-> path, region |-> region, account |-> g.context[5],
                       enum_spec |-> meta.enum_spec, filter |-> filter]
            g1     == LogCall(g, "find_resource_class", path, NoError)
        IN  IF ~call_ok
            THEN Raise(LogCall(g1, "endpoint.call", arg, EndpointError),
                       EndpointError)
            ELSE SetTop(LogCall(g1, "endpoint.call", arg, NoError),
                        [f EXCEPT !.i = f.i + 1,
                                  !.resource_type = resource_type,
                                  !.client_side = ClientSideFiltering(meta, f.resource_id),
                                  !.data = EndpointCall(region, filter),
                                  !.j = 0])

\* resource_cls(endpoint, d, self._arn.query)
NewResource(g, f, d) ==
    [path    |-> <<g.context[2], g.context[3], f.resource_type>>,
     region  |-> g.context[4],
     account |-> g.context[5],
     data    |-> d,
     query   |-> query]

\* Is the generator of frame f at the end of its for loop?
Exhausted(f) ==
    /\ f.i = Len(f.matches)
    /\ f.level = 6 => f.j = Len(f.data)

Traversals == DOMAIN gen

\* The interpreter runs one generator chain at a time.
NoneRunning == \A t \in Traversals : gen[t].status # "running"

\* next(it): the consumer asks traversal t for its next resource.
Request(t) ==
    /\ NoneRunning
    /\ gen[t].status \in {"created", "suspended"}
    /\ gen' = [gen EXCEPT ![t].status = "running", ![t].requests = @ + 1]
    /\ UNCHANGED <<arn_string, components, query, raised, repr_out, account_map, probe>>

\* Mutant of Start: the context list is not a new one, but the list another
\* traversal of the locator is working on.
StartOnSharedContext(t) ==
    /\ gen[t].status = "running"
    /\ gen[t].stack = <<>>
    /\ \E u \in Traversals :
          gen' = [gen EXCEPT ![t] =
                    EnterLevel([gen[t] EXCEPT !.context = gen[u].context], 1)]
    /\ UNCHANGED <<arn_string, components, query, raised, repr_out, account_map, probe>>

\* ARN.__iter__ starts: context = [], and self.scheme.enumerate(context).
Start(t) ==
    /\ gen[t].status = "running"
    /\ gen[t].stack = <<>>
    /\ gen' = [gen EXCEPT ![t] = EnterLevel([gen[t] EXCEPT !.context = <<>>], 1)]
    /\ UNCHANGED <<arn_string, components, query, raised, repr_out, account_map, probe>>

\* The for loop of a level above Resource takes its next match:
\* context.append(match), and the next level's enumerate(context) starts.
Descend(t) ==
    /\ gen[t].status = "running"
    /\ gen[t].stack # <<>>
    /\ LET f == Top(gen[t])
       IN  /\ f.level <= 5
           /\ f.i < Len(f.matches)
           /\ LET g == [SetTop(gen[t], [f EXCEPT !.i = f.i + 1])
                           EXCEPT !.context = Append(@, f.matches[f.i + 1])]
              IN  IF f.level < 5
                  THEN gen' = [gen EXCEPT ![t] = EnterLevel(g, f.level + 1)]
                  ELSE \E session_ok \in BOOLEAN :
                          gen' = [gen EXCEPT ![t] = EnterResource(g, session_ok)]
    /\ UNCHANGED <<arn_string, components, query, raised, repr_out, account_map, probe>>

\* Mutant of Return: the level above goes on without context.pop().
ReturnKeepsContext(t) ==
    /\ gen[t].status = "running"
    /\ gen[t].stack # <<>>
    /\ Exhausted(Top(gen[t]))
    /\ LET rest == SubSeq(gen[t].stack, 1, Len(gen[t].stack) - 1)
       IN  gen' = [gen EXCEPT ![t] =
                IF rest = <<>>
                THEN [@ EXCEPT !.stack = rest, !.status = "done"]
                ELSE [@ EXCEPT !.stack = rest]]
    /\ UNCHANGED <<arn_string, components, query, raised, repr_out, account_map, probe>>

\* A generator's for loop is over: it ends, and the level above pops the
\* context; when Scheme.enumerate ends, so does ARN.__iter__.
Return(t) ==
    /\ gen[t].status = "running"
    /\ gen[t].stack # <<>>
    /\ Exhausted(Top(gen[t]))
    /\ LET rest == SubSeq(gen[t].stack, 1, Len(gen[t].stack) - 1)
       IN  gen' = [gen EXCEPT ![t] =
                IF rest = <<>>
                THEN [@ EXCEPT !.stack = rest, !.status = "done"]
                ELSE [@ EXCEPT !.stack = rest,
                               !.context = SubSeq(@, 1, Len(@) - 1)]]
    /\ UNCHANGED <<arn_string, components, query, raised, repr_out, account_map, probe>>

\* Resource.enumerate takes its next matching type and calls the endpoint.
EnumerateType(t) ==
    /\ gen[t].status = "running"
    /\ gen[t].stack # <<>>
    /\ LET f == Top(gen[t])
       IN  /\ f.level = 6
           /\ f.j = Len(f.data)
           /\ f.i < Len(f.matches)
    /\ \E call_ok \in BOOLEAN :
          gen' = [gen EXCEPT ![t] = EnumerateNextType(gen[t], call_ok)]
    /\ UNCHANGED <<arn_string, components, query, raised, repr_out, account_map, probe>>

\* Mutant of NextItem: the resource is handed over, and the generator runs
\* on without waiting for the consumer's next request.
NextItemEager(t) ==
    /\ gen[t].status = "running"
    /\ gen[t].stack # <<>>
    /\ LET f == Top(gen[t])
       IN  /\ f.level = 6
           /\ f.j < Len(f.data)
           /\ LET d == f.data[f.j + 1]
                  g == SetTop(gen[t], [f EXCEPT !.j = f.j + 1])
              IN  gen' = [gen EXCEPT ![t] =
                      IF f.client_side /\ ~ClassFilter(f.resource_id, d)
                      THEN g
                      ELSE [g EXCEPT !.yielded = Append(@, NewResource(g, f, d))]]
    /\ UNCHANGED <<arn_string, components, query, raised, repr_out, account_map, probe>>

\* The inner loop of Resource.enumerate takes the next item: it is skipped
\* by the client-side filter, or wrapped and yielded to the consumer.
NextItem(t) ==
    /\ gen[t].status = "running"
    /\ gen[t].stack # <<>>
    /\ LET f == Top(gen[t])
       IN  /\ f.level = 6
           /\ f.j < Len(f.data)
           /\ LET d == f.data[f.j + 1]
                  g == SetTop(gen[t], [f EXCEPT !.j = f.j + 1])
              IN  gen' = [gen EXCEPT ![t] =
                      IF f.client_side /\ ~ClassFilter(f.resource_id, d)
                      THEN g
                      ELSE [g EXCEPT !.status = "suspended",
                                     !.yielded = Append(@, NewResource(g, f, d))]]
    /\ UNCHANGED <<arn_string, components, query, raised, repr_out, account_map, probe>>

TraverseLocators ==
    LocatorStrings({SchemeArn}, {ProviderAws, STAR},
                   {STAR, Cloudwatch, <<"c">>, Kinesis, Ec2, S3},
                   {STAR, UsEast1, UsWest, GlobEast},
                   {STAR, Acct123, <<"2", "3">>, Acct999},
                   {STAR, TypeAlarm, AlarmMyAlarm, AlarmStar, StreamB, VolumeB,
                    GlobAlarm})

Init ==
    /\ \E s \in TraverseLocators, m \in AccountMaps : Constructed(s, m)
    /\ gen = [t \in {1} |-> NewGen]
    /\ probe = NoProbe

Next ==
    \/ \E t \in Traversals : Request(t)
    \/ \E t \in Traversals : Start(t)
    \/ \E t \in Traversals : Descend(t)
    \/ \E t \in Traversals : Return(t)
    \/ \E t \in Traversals : EnumerateType(t)
    \/ \E t \in Traversals : NextItem(t)

Spec == Init /\ [][Next]_vars

\* A step of a generator chain that a next() has set running.
Step ==
    \E t \in Traversals :
        Start(t) \/ Descend(t) \/ Return(t) \/ EnumerateType(t) \/ NextItem(t)

\* next() is an ordinary call: the interpreter runs the chain until it
\* yields, ends or raises.
FairSpec == Spec /\ WF_vars(Step)

\* Two traversals of one locator: iter(arn) called twice, and the consumer
\* asking either for its next resource in any order.
PairLocators ==
    LocatorStrings({SchemeArn}, {ProviderAws},
                   {Cloudwatch, Kinesis, <<"c">>},
                   {UsEast1, UsWest}, {STAR, Acct123},
                   {STAR, TypeAlarm, StreamB})

InitPair ==
    /\ \E s \in PairLocators, m \in AccountMaps : Constructed(s, m)
    /\ gen = [t \in {1, 2} |-> NewGen]
    /\ probe = NoProbe

SpecPair == InitPair /\ [][Next]_vars

---------------------------------------------------------------------------
(* Properties of the parser (SpecParse) *)

Count(s, ch) == Cardinality({i \in 1..Len(s) : s[i] = ch})

\* The part of s before its '|expression' suffix.
LocatorPart(s) == Split(s, "|", 1)[1]

\* The ':'-separated fields of s.
Fields(s) == Split(LocatorPart(s), ":", -1)

\* Everything after the n-th ':' of s.
AfterColons(s, n) == Join(SubSeq(Split(s, ":", -1), n + 1, Count(s, ":") + 1), ":")

\* s with the missing trailing fields of its locator part written as '*'.
Explicit(s) ==
    LET fs == Fields(s)
    IN  Join(fs \o [i \in 1..(6 - Len(fs)) |-> STAR], ":")
            \o SubSeq(s, Len(LocatorPart(s)) + 1, Len(s))

\* C1: constructing a locator from a string with more than 5 colons
\* succeeds, gives exactly six levels, and the sixth token is everything
\* after the fifth colon, further colons included.
C1_ExtraColonsAbsorbed ==
    (raised # "new" /\ "|" \notin Range(arn_string) /\ Count(arn_string, ":") > 5)
        => /\ raised = "none"
           /\ Len(components) = 6
           /\ components[6].pattern = AfterColons(arn_string, 5)

\* C5: a string whose locator part (the string itself, or what precedes its
\* one '|expression' suffix) has fewer than 6 colon-separated fields (the
\* empty string included) parses to exactly six levels of the six classes in order, the
\* missing trailing ones with the token '*', and to the same locator as the
\* string with those fields written explicitly as '*'.
C5_MissingFieldsDefaultToStar ==
    (raised # "new" /\ Count(arn_string, "|") <= 1 /\ Len(Fields(arn_string)) < 6)
        => /\ raised = "none"
           /\ Len(components) = 6
           /\ \A i \in 1..6 : components[i].cls = ComponentClasses[i]
           /\ \A i \in 1..Len(Fields(arn_string)) :
                 components[i].pattern = Fields(arn_string)[i]
           /\ \A i \in (Len(Fields(arn_string)) + 1)..6 :
                 components[i].pattern = STAR
           /\ LET explicit == BuildComponentsFromString(Explicit(arn_string))
              IN  /\ Len(Fields(Explicit(arn_string))) = 6
                  /\ explicit.raised = "none"
                  /\ explicit.components = components
                  /\ explicit.query = query

\* C5 witness: the empty string has been parsed, and three given fields too.
C5_Witness ==
    /\ raised = "none"
    /\ arn_string = <<>>
    /\ Len(components) = 6
    /\ components[1].pattern = <<>>
    /\ components[2].pattern = STAR

FullyConcrete(s) ==
    /\ "|" \notin Range(s)
    /\ "*" \notin Range(s)
    /\ Len(Fields(s)) = 6

\* C6: serialising the locator parsed from a fully-concrete 6-field string
\* (no wildcard, no filter suffix) gives the string back.
C6_ReprRoundTrip ==
    (repr_out # PyNone /\ FullyConcrete(arn_string)) => repr_out = arn_string

\* C6 witness: a six-field string of literals has been parsed and serialised.
C6_Witness ==
    /\ repr_out # PyNone
    /\ FullyConcrete(arn_string)
    /\ \A i \in 1..6 : components[i].pattern = <<"a", "b">>

---------------------------------------------------------------------------
(* Properties of choices and match (SpecQuery) *)

\* C4: at every level and for every context, match('*', context) is
\* choices(context): the same elements in the same order.
C4_WildcardUniversality ==
    (probe.op = "match" /\ probe.pattern = STAR)
        => probe.result = Choices(probe.level, components, account_map,
                                  probe.context)

\* The service a call on the Region level is about: the one resolved in the
\* context or, without a context, the locator's service field.
RegionQueryService ==
    IF Truthy(probe.context) THEN probe.context[3] ELSE components[3].pattern

\* C7: for a service of the restricted set, the Region level's candidates
\* (and so its matches, whatever the pattern) are all in the limited list,
\* with the service resolved in the context and, without a context, with
\* the service being the locator's service field.
C7_RestrictedRegionsOnly ==
    (probe.op \in {"choices", "match"} /\ probe.level = 4
        /\ RegionQueryService \in RestrictedServices)
        => Range(probe.result) \subseteq Range(RegionNamesLimited)

---------------------------------------------------------------------------
(* Properties of a traversal (Spec, FairSpec) *)

AccountKeys == Range(AccountChoices(account_map))

\* The service field finds a match in no service of the registry.
ServiceUnknown ==
    \A sv \in Range(AllServices(ProviderAws)) :
        ~Search(RegexOf(components[3].pattern), sv)

\* Some branch of the traversal reaches the Account level.
AccountLevelReached ==
    \E sv \in Range(Matches(3, components, account_map, <<SchemeArn, ProviderAws>>)) :
        Matches(4, components, account_map, <<SchemeArn, ProviderAws, sv>>) # <<>>

\* The account field is a concrete account id (digits) that is no key of
\* the account map.
ConcreteAccountAbsent ==
    /\ components[5].pattern # <<>>
    /\ Range(components[5].pattern) \subseteq {"1", "2", "3", "4", "9"}
    /\ components[5].pattern \notin AccountKeys

\* The keys of the account map that contain the account field.
AccountKeysFound ==
    {k \in AccountKeys : Search(components[5].pattern, k)}

\* C2: in every branch, the candidate type names of the Resource level are
\* the registry's type names for the provider and service resolved in the
\* branch's context.
C2_ResourceCandidatesOfResolvedService ==
    \A t \in Traversals :
        (gen[t].stack # <<>> /\ Top(gen[t]).level = 6)
            => Top(gen[t]).candidates =
                   AllTypes(gen[t].context[2], gen[t].context[3])

\* C3, as claimed: a traversal whose account field is a concrete account id
\* absent from the account map, and which reaches the Account level, does
\* not complete normally.
C3_AbsentAccountFails ==
    \A t \in Traversals :
        (ConcreteAccountAbsent /\ AccountLevelReached) => gen[t].status # "done"

\* C3, amended: with a concrete account id absent from the account map no
\* account-resolution error is ever raised.  The id is searched for in the
\* keys of the map: accounts are resolved only for keys that contain it,
\* and when no key does, the traversal yields nothing, calls no
\* collaborator, reaches no Resource level and raises nothing (but for the
\* re.error of another field that is no regular expression); once asked
\* for an item it ends.
C3_AbsentAccountSafe ==
    \A t \in Traversals :
        ConcreteAccountAbsent =>
            /\ gen[t].error.raised_by # "map_account_to_profile"
            /\ \A k \in DOMAIN gen[t].calls :
                  gen[t].calls[k].fn = "map_account_to_profile"
                      => /\ gen[t].calls[k].arg \in AccountKeysFound
                         /\ gen[t].calls[k].raised = NoError
            /\ \A k \in DOMAIN gen[t].stack :
                  gen[t].stack[k].level = 5
                      => Range(gen[t].stack[k].matches) = AccountKeysFound
            /\ AccountKeysFound = {} =>
                  /\ gen[t].yielded = <<>>
                  /\ gen[t].calls = <<>>
                  /\ gen[t].status # "suspended"
                  /\ gen[t].status = "raised" =>
                        /\ gen[t].error = ReError
                        /\ ~PatternCompiles(4)
                  /\ \A k \in DOMAIN gen[t].stack : gen[t].stack[k].level <= 5

C3_AbsentAccountPrunes ==
    /\ []C3_AbsentAccountSafe
    /\ (ConcreteAccountAbsent /\ AccountKeysFound = {}
           /\ \E t \in Traversals : gen[t].status = "running")
          ~> (\A t \in Traversals : gen[t].status \in {"done", "raised"})

\* C3 witness: the Account level of a traversal has looked for a concrete
\* absent account id among the keys of a non-empty map and found no match.
C3_Witness ==
    \E t \in Traversals :
        /\ ConcreteAccountAbsent
        /\ account_map # <<>>
        /\ gen[t].status = "running"
        /\ gen[t].stack # <<>>
        /\ Top(gen[t]).level = 5
        /\ Top(gen[t]).matches = <<>>

\* C8: a traversal whose service pattern matches no service of the registry
\* has no match at the Service level, goes no deeper, yields nothing, calls
\* no collaborator and raises nothing; and once asked for an item it ends
\* normally.
C8_UnknownServiceSafe ==
    \A t \in Traversals :
        ServiceUnknown =>
            /\ gen[t].yielded = <<>>
            /\ gen[t].calls = <<>>
            /\ gen[t].error = NoError
            /\ gen[t].status \in {"created", "running", "done"}
            /\ \A k \in DOMAIN gen[t].stack :
                  /\ gen[t].stack[k].level <= 3
                  /\ gen[t].stack[k].level = 3 => gen[t].stack[k].matches = <<>>

C8_UnknownServiceYieldsNothing ==
    /\ []C8_UnknownServiceSafe
    /\ (ServiceUnknown /\ \E t \in Traversals : gen[t].status = "running")
          ~> (\A t \in Traversals : gen[t].status = "done")

\* C8 witness: a traversal with an unknown service has ended normally.
C8_Witness ==
    \E t \in Traversals :
        /\ ServiceUnknown
        /\ gen[t].status = "done"
        /\ gen[t].yielded = <<>>

\* C9: when the registry gives the Resource level of a branch no type
\* names, the branch has no match: nothing is looked up or enumerated for
\* it, and nothing is raised.
C9_EmptyCandidatesPrune ==
    \A t \in Traversals :
        (gen[t].stack # <<>> /\ Top(gen[t]).level = 6
            /\ Top(gen[t]).registry = <<>>)
            => Top(gen[t]).matches = <<>>

Last(s) == s[Len(s)]

IsPrefix(s, u) == Len(s) <= Len(u) /\ SubSeq(u, 1, Len(s)) = s

\* The state part of C10: a collaborator call that failed is the last call
\* made, and the consumer holds its exception; the consumer holds an
\* exception only of the last call (or the re.error of a field that is no
\* regular expression); the generators have all been left.
C10_FailureSurfaces ==
    \A t \in Traversals :
        /\ gen[t].status = "raised" <=> gen[t].error # NoError
        /\ \A k \in DOMAIN gen[t].calls :
              gen[t].calls[k].raised # NoError
                  => /\ k = Len(gen[t].calls)
                     /\ gen[t].status = "raised"
                     /\ gen[t].error = gen[t].calls[k].raised
        /\ gen[t].status = "raised"
              => /\ gen[t].stack = <<>>
                 /\ gen[t].error # ReError
                       => /\ gen[t].calls # <<>>
                          /\ Last(gen[t].calls).raised = gen[t].error

\* The step part of C10: a failing call happens inside a request of the
\* consumer and ends it with the exception, the resources yielded before
\* are kept as they are, and a traversal that raised does nothing further.
C10_FailureStep ==
    \A t \in Traversals :
        /\ IsPrefix(gen[t].yielded, gen'[t].yielded)
        /\ gen[t].status = "raised" => gen'[t] = gen[t]
        /\ (gen'[t].status = "raised" /\ gen[t].status # "raised")
              => /\ gen[t].status = "running"
                 /\ gen'[t].yielded = gen[t].yielded
                 /\ gen'[t].error # ReError
                       => Len(gen'[t].calls) > Len(gen[t].calls)

\* C10: a failure of account resolution, of a registry lookup or of the
\* session or enumerator is neither caught nor retried: it reaches the
\* consumer unmodified at the request that reaches the failing branch, what
\* was yielded before stays delivered, and nothing further is produced.
C10_FailuresPropagate ==
    []C10_FailureSurfaces /\ [][C10_FailureStep]_vars

\* C10 witness: the enumerator failed after resources had been yielded.
C10_Witness ==
    \E t \in Traversals :
        /\ gen[t].status = "raised"
        /\ gen[t].error = EndpointError
        /\ Len(gen[t].yielded) >= 2

---------------------------------------------------------------------------
(* Properties of the terminal level (Spec) *)

\* The id portion of the locator's resource token.
PatternId == SplitResource(components[6].pattern)[2]

\* The resources g's consumer received from the branch of call argument a.
YieldedFor(g, a) ==
    SelectSeq(g.yielded,
              LAMBDA r : r.path = a.path /\ r.region = a.region
                         /\ r.account = a.account)

ItemsOf(resources) == [i \in DOMAIN resources |-> resources[i].data]

\* The k-th collaborator call of g is an endpoint.call that returned.
Enumerated(g, k) ==
    g.calls[k].fn = "endpoint.call" /\ g.calls[k].raised = NoError

\* The filter argument is the id, as a one-element list or as it is.
PassesId(filter, meta) ==
    /\ filter # NoFilter
    /\ filter.name = meta.filter_name
    /\ filter.list = (meta.filter_type = "list")
    /\ IF filter.list
       THEN Len(filter.value) = 1 /\ filter.value[1] = PatternId
       ELSE filter.value = PatternId

\* C11: for every matched type, an explicit id other than '*' goes into the
\* filter argument named by the class's filter field (a one-element list
\* for the kind 'list', the plain value otherwise) and every returned item
\* is yielded; with an explicit id and no filter field no filter argument
\* is passed and exactly the returned items whose identifier is the id are
\* yielded; with no id or the id '*' no filter argument is passed and
\* every returned item is yielded.
C11_TerminalFiltering ==
    \A t \in Traversals : \A k \in DOMAIN gen[t].calls :
        Enumerated(gen[t], k) =>
            LET a        == gen[t].calls[k].arg
                meta     == Meta(a.path[2], a.path[3])
                explicit == PatternId # PyNone /\ PatternId # STAR
                has_name == meta.filter_name # "None"
                returned == EndpointCall(a.region, a.filter)
                items    == ItemsOf(YieldedFor(gen[t], a))
                expected == IF explicit /\ ~has_name
                            THEN SelectSeq(returned, LAMBDA d : d.id = PatternId)
                            ELSE returned
                finished == k < Len(gen[t].calls) \/ gen[t].status = "done"
            IN  /\ IF explicit /\ has_name
                   THEN PassesId(a.filter, meta)
                   ELSE a.filter = NoFilter
                /\ IsPrefix(items, expected)
                /\ finished => items = expected

\* An id went to the provider as a plain value, and its item was yielded.
C11_Witness ==
    \E k \in DOMAIN gen[1].calls :
        /\ Enumerated(gen[1], k)
        /\ gen[1].calls[k].arg.filter # NoFilter
        /\ ~gen[1].calls[k].arg.filter.list
        /\ gen[1].calls[k].arg.filter.value = OtherId
        /\ gen[1].status = "done"
        /\ gen[1].yielded # <<>>

---------------------------------------------------------------------------
(* Properties of two traversals of one locator (SpecPair) *)

\* The items of the runs in order, up to and without the first failed run.
RECURSIVE Chain(_, _)
Chain(runs, k) ==
    IF k > Len(runs) THEN [items |-> <<>>, ok |-> TRUE]
    ELSE LET run  == runs[k]
             rest == Chain(runs, k + 1)
         IN  IF ~run.ok THEN run
             ELSE [items |-> run.items \o rest.items, ok |-> rest.ok]

\* What a traversal on its own yields below the context, with collaborators
\* that answer: the resources in order, and whether it got through.
RECURSIVE SoloFrom(_)
SoloFrom(context) ==
    LET level   == Len(context) + 1
        matches == Matches(level, components, account_map, context)
    IN  IF level <= 5
        THEN Chain([i \in DOMAIN matches |-> SoloFrom(Append(context, matches[i]))], 1)
        ELSE Chain([i \in DOMAIN matches |->
                LET meta == Meta(context[3], matches[i])
                    data == EndpointCall(context[4], FilterArgs(meta, PatternId))
                    kept == IF ClientSideFiltering(meta, PatternId)
                            THEN SelectSeq(data, LAMBDA d : ClassFilter(PatternId, d))
                            ELSE data
                IN  IF ~RegistryKnows(context[2], context[3], matches[i])
                    THEN [items |-> <<>>, ok |-> FALSE]
                    ELSE [items |-> [j \in DOMAIN kept |->
                                      [path    |-> <<context[2], context[3], matches[i]>>,
                                       region  |-> context[4],
                                       account |-> context[5],
                                       data    |-> kept[j],
                                       query   |-> query]],
                          ok    |-> TRUE]], 1)

Solo == SoloFrom(<<>>)

\* The context of g holds the matches its own for loops are at, and no more.
OwnContext(g) ==
    /\ Len(g.context) = Max(Len(g.stack) - 1, 0)
    /\ \A i \in DOMAIN g.context : g.context[i] = g.stack[i].matches[g.stack[i].i]

\* C12: whatever the order of the next-item requests on two traversals of
\* one locator, each yields the sequence it yields alone (a prefix of it
\* while it runs or when a collaborator fails, all of it when it is done),
\* and its context holds only the values of its own loops.
C12_TraversalsIndependent ==
    LET solo == Solo
    IN  \A t \in Traversals :
            /\ IsPrefix(gen[t].yielded, solo.items)
            /\ gen[t].status = "done" => solo.ok /\ gen[t].yielded = solo.items
            /\ gen[t].status = "raised" /\ gen[t].error.raised_by = "find_resource_class"
                  => ~solo.ok /\ gen[t].yielded = solo.items
            /\ gen[t].status \in {"running", "suspended"} => OwnContext(gen[t])

\* The second traversal started while the first was suspended deep in its
\* branches, and finished before it with all the resources.
C12_Witness ==
    /\ gen[1].status = "suspended"
    /\ Len(gen[1].yielded) = 1
    /\ gen[2].status = "done"
    /\ Len(gen[2].yielded) >= 3

---------------------------------------------------------------------------
(* Properties of the consumer's requests (Spec) *)

\* The items the k-th call of g returned have all been handed over, but for
\* those the client-side filter drops.
Delivered(g, k) ==
    LET a        == g.calls[k].arg
        meta     == Meta(a.path[2], a.path[3])
        returned == EndpointCall(a.region, a.filter)
        expected == IF ClientSideFiltering(meta, PatternId)
                    THEN SelectSeq(returned, LAMBDA d : ClassFilter(PatternId, d))
                    ELSE returned
    IN  ItemsOf(YieldedFor(g, a)) = expected

\* The consumer never holds more resources than it asked for, and while it
\* is not asking (the traversal sits at a yield) the last collaborator call
\* made is the enumerator call of the branch of the last resource, and no
\* exception is pending.
C13_NothingAhead ==
    \A t \in Traversals :
        /\ Len(gen[t].yielded) <= gen[t].requests
        /\ gen[t].status = "created" => gen[t].calls = <<>>
        /\ gen[t].status = "suspended" =>
              /\ gen[t].error = NoError
              /\ Len(gen[t].yielded) = gen[t].requests
              /\ gen[t].calls # <<>>
              /\ Enumerated(gen[t], Len(gen[t].calls))
              /\ LET a == Last(gen[t].calls).arg
                     r == Last(gen[t].yielded)
                 IN  r.path = a.path /\ r.region = a.region /\ r.account = a.account

\* A collaborator is called only in answer to a request for an item beyond
\* every item of the branches enumerated so far, and a traversal nobody asks
\* does nothing.
C13_CallsOnRequest ==
    \A t \in Traversals :
        /\ gen'[t].calls # gen[t].calls =>
              /\ gen[t].status = "running"
              /\ gen[t].requests = Len(gen[t].yielded) + 1
              /\ \A k \in DOMAIN gen[t].calls :
                    Enumerated(gen[t], k) => Delivered(gen[t], k)
        /\ gen[t].status # "running" /\ gen'[t] # gen[t] =>
              gen'[t] = [gen[t] EXCEPT !.status = "running", !.requests = @ + 1]

\* C13: the traversal is driven by the consumer's requests: account
\* resolution, session and enumerator call of a branch are made only once
\* the consumer asked for an item beyond all items of the earlier branches;
\* after the k-th item nothing is called until the next request, and a
\* traversal left at a yield holds no error.
C13_PullDriven == []C13_NothingAhead /\ [][C13_CallsOnRequest]_vars

\* The consumer stopped after the first of several resources: the branch of
\* the next account has not been touched.
C13_Witness ==
    /\ gen[1].status = "suspended"
    /\ Len(gen[1].yielded) = 1
    /\ Len(account_map) = 2
    /\ components[5].pattern = STAR
    /\ Len(gen[1].calls) = 4

---------------------------------------------------------------------------
(* Properties of the filter suffix (SpecParse) *)

\* The expression of s: all that follows its first '|'.
ExpressionPart(s) == Split(s, "|", 1)[2]

\* C14: a string '<fields>|<expression>' whose fields parse on their own is
\* constructed whatever the expression holds, further '|' included: the
\* levels are those of '<fields>' alone and the query is the whole
\* expression, compiled.
C14_FilterSuffixParsed ==
    LET alone == BuildComponentsFromString(LocatorPart(arn_string))
    IN  (raised # "new" /\ "|" \in Range(arn_string) /\ alone.raised = "none")
            => /\ raised = "none"
               /\ components = alone.components
               /\ query = JmesCompile(ExpressionPart(arn_string))

---------------------------------------------------------------------------
(* Properties of the resource-token split (SpecSplit) *)

\* The position of the first ch in s.
FirstIndex(s, ch) == CHOOSE i \in DOMAIN s : s[i] = ch /\ \A j \in 1..(i - 1) : s[j] # ch

\* s cut at its first ch: what is before it, and what is after it.
CutAtFirst(s, ch) ==
    <<SubSeq(s, 1, FirstIndex(s, ch) - 1), SubSeq(s, FirstIndex(s, ch) + 1, Len(s))>>

\* C15: a resource token with a '/' is split once at its first '/' into
\* (type, id); otherwise one with a ':' is split once at its first ':';
\* otherwise the type is the token and the id is none.  'alarm/my-alarm'
\* and 'alarm:my-alarm' give ('alarm', 'my-alarm'), 'alarm' gives
\* ('alarm', None).
C15_ResourceTokenSplit ==
    probe.op = "split" =>
        LET token == probe.pattern
        IN  /\ probe.result =
                 IF "/" \in Range(token) THEN CutAtFirst(token, "/")
                 ELSE IF ":" \in Range(token) THEN CutAtFirst(token, ":")
                 ELSE <<token, PyNone>>
            /\ token \in {AlarmMyAlarm, AlarmColonMyAlarm}
                  => probe.result = <<TypeAlarm, MyAlarm>>
            /\ token = TypeAlarm => probe.result = <<TypeAlarm, PyNone>>

\* A token with a ':' before its '/' has been split at the '/'.
C15_Witness ==
    /\ probe.op = "split"
    /\ probe.pattern = <<"a", ":", "a", "/">>
    /\ probe.result = << <<"a", ":", "a">>, <<>> >>

---------------------------------------------------------------------------
(* Properties of completion and matching (SpecQuery) *)

\* The elements of list that satisfy Keep form, in the order of list, kept.
IsSelection(kept, list, Keep(_)) ==
    LET hits == {k \in DOMAIN list : Keep(list[k])}
    IN  /\ Len(kept) = Cardinality(hits)
        /\ \A k \in hits : kept[Cardinality({m \in hits : m <= k})] = list[k]

\* C16: at every level and under every context, complete with the empty
\* prefix is choices(context), and complete(prefix, context) is the
\* candidates of choices(context) that begin with the prefix, in their
\* order, whatever the pattern of the level is.
C16_CompleteByPrefix ==
    probe.op = "complete" =>
        LET candidates == Choices(probe.level, components, account_map, probe.context)
            prefix     == probe.pattern
        IN  /\ prefix = <<>> => probe.result = candidates
            /\ IsSelection(probe.result, candidates,
                           LAMBDA c : /\ Len(prefix) <= Len(c)
                                      /\ \A i \in DOMAIN prefix : c[i] = prefix[i])

\* A level whose own pattern matches no candidate completed a prefix to
\* one candidate out of several.
C16_Witness ==
    /\ probe.op = "complete"
    /\ probe.level = 3
    /\ components[3].pattern = Redshift
    /\ probe.pattern = <<"c", "l">>
    /\ probe.result = <<Cloudwatch>>

\* The type portion of a resource token: what is before its first '/', or
\* with no '/' before its first ':', or all of it.
TypePortion(token) ==
    IF "/" \in Range(token) THEN CutAtFirst(token, "/")[1]
    ELSE IF ":" \in Range(token) THEN CutAtFirst(token, ":")[1]
    ELSE token

\* C19: the id of a resource token takes no part in the filtering of the
\* candidates: under every context the Resource level's match of 't/id'
\* and of 't:id' (a token with no '/') is its match of t alone, t being a
\* type portion, which holds no separator.
C19_IdIgnoredByMatch ==
    (probe.op = "match" /\ probe.level = 6) =>
        LET t == TypePortion(probe.pattern)
        IN  ":" \notin Range(t) =>
                probe.result = Match(6, components, account_map, t, probe.context)

\* A token with an id matched the type its type portion names, under a
\* context.
C19_Witness ==
    /\ probe.op = "match"
    /\ probe.level = 6
    /\ probe.pattern = TypeAlarm \o <<":">> \o MyAlarm
    /\ probe.context # NoContext
    /\ probe.result = <<TypeAlarm>>

\* The characters a regular expression gives a meaning of their own.
RegexMetaChars ==
    {".", "^", "$", "*", "+", "?", "{", "}", "[", "]", "\\", "|", "(", ")"}

Literal(token) == Range(token) \cap RegexMetaChars = {}

\* token is a substring of c.
Contains(c, token) ==
    \E i \in 0..(Len(c) - Len(token)) : SubSeq(c, i + 1, i + Len(token)) = token

\* The call is level.matches(context): match with the level's own pattern.
IsMatchesCall == probe.op = "match" /\ probe.pattern = components[probe.level].pattern

\* The token a level searches for: its pattern, at the Resource level the
\* type portion of its pattern.
SearchToken == IF probe.level = 6 THEN TypePortion(probe.pattern) ELSE probe.pattern

\* C20: at every level, for a literal token other than '*',
\* matches(context) is the candidates of choices(context) that contain the
\* token as a substring, in candidate order.
C20_SubstringSearch ==
    (IsMatchesCall /\ Literal(SearchToken)) =>
        IsSelection(probe.result,
                    Choices(probe.level, components, account_map, probe.context),
                    LAMBDA c : Contains(c, SearchToken))

---------------------------------------------------------------------------
(* Properties of the context and of the order of the branches (Spec) *)

\* The number of enumerate generators below Scheme.enumerate that g is in.
Depth(g) == Max(Len(g.stack) - 1, 0)

\* The context is one match of each of the five upper levels, in the order
\* of the levels, each out of what its level matches under the values
\* before it.
FiveMatches(context) ==
    /\ Len(context) = 5
    /\ \A i \in 1..5 :
          \E k \in DOMAIN Matches(i, components, account_map, SubSeq(context, 1, i - 1)) :
              context[i] = Matches(i, components, account_map, SubSeq(context, 1, i - 1))[k]

\* The traversal is in Resource.enumerate, or an exception left it there.
AtTerminalCall(g) ==
    \/ g.stack # <<>> /\ Top(g).level = 6
    \/ g.status = "raised" /\ g.error.raised_by # "re.compile"

\* C17: in every state of a traversal the length of its context is the
\* depth of its recursion, the generators of its chain are those of the
\* levels 1, 2, ... with none left out, in a terminal call the context is
\* the five values scheme, provider, service, region, account, each a
\* match of its level under the values above it, and when the traversal is
\* exhausted the context is empty again.
C17_ContextInvariant ==
    \A t \in Traversals :
        /\ gen[t].status # "raised" => Len(gen[t].context) = Depth(gen[t])
        /\ \A i \in DOMAIN gen[t].stack : gen[t].stack[i].level = i
        /\ AtTerminalCall(gen[t]) => FiveMatches(gen[t].context)
        /\ \A k \in DOMAIN gen[t].calls :
              Enumerated(gen[t], k) /\ k = Len(gen[t].calls) /\ Len(gen[t].stack) = 6 =>
                  LET a == gen[t].calls[k].arg
                  IN  /\ a.path[1] = gen[t].context[2]
                      /\ a.path[2] = gen[t].context[3]
                      /\ a.region = gen[t].context[4]
                      /\ a.account = gen[t].context[5]
        /\ gen[t].status = "done" => gen[t].context = <<>>

\* The traversal went down to the resources of a region, came back up, and
\* is down again in another region.
C17_Witness ==
    /\ gen[1].status = "suspended"
    /\ Len(gen[1].stack) = 6
    /\ components[4].pattern = STAR
    /\ gen[1].context[4] = AllRegionNames[3]
    /\ Len(gen[1].yielded) = 3

\* The position of x in a list of distinct elements.
IndexIn(list, x) == CHOOSE k \in DOMAIN list : list[k] = x

\* The place of the branch (path, region, account) in the nesting of the
\* for loops: the positions of its service, region, account and type in the
\* match lists of their levels.
Rank(path, region, account) ==
    LET context == <<SchemeArn, path[1], path[2], region, account>>
    IN  [i \in 1..4 |->
            IndexIn(Matches(i + 2, components, account_map, SubSeq(context, 1, i + 1)),
                    IF i = 4 THEN path[3] ELSE context[i + 2])]

\* r comes before s in the order of the nested loops.
Before(r, s) ==
    \E i \in 1..4 : r[i] < s[i] /\ \A j \in 1..(i - 1) : r[j] = s[j]

\* The branches of the locator: one per service, region, account and type
\* that match, each under the values above it.
AllBranches ==
    UNION { UNION { UNION { UNION {
        { <<pr, sv, rg, ac, ty>> :
            ty \in Range(Matches(6, components, account_map, <<SchemeArn, pr, sv, rg, ac>>)) } :
            ac \in Range(Matches(5, components, account_map, <<SchemeArn, pr, sv, rg>>)) } :
            rg \in Range(Matches(4, components, account_map, <<SchemeArn, pr, sv>>)) } :
            sv \in Range(Matches(3, components, account_map, <<SchemeArn, pr>>)) } :
            pr \in Range(Matches(2, components, account_map, <<SchemeArn>>)) }

\* The enumerator calls of g, failed ones too.
EnumeratorCalls(g) == SelectSeq(g.calls, LAMBDA c : c.fn = "endpoint.call")

\* C18: the resources come branch by branch, the branches in the nested
\* order of the match lists of service, region, account and type; the items
\* of a branch come in the order its enumerator call returned them, all of
\* them before any item of the next branch; and the enumerator is called
\* once per branch, in that order, for every branch once the traversal is
\* exhausted.
C18_DepthFirstOrder ==
    \A t \in Traversals :
        LET ys == gen[t].yielded
            cs == EnumeratorCalls(gen[t])
        IN  /\ \A i \in 1..(Len(cs) - 1) :
                  Before(Rank(cs[i].arg.path, cs[i].arg.region, cs[i].arg.account),
                         Rank(cs[i + 1].arg.path, cs[i + 1].arg.region,
                              cs[i + 1].arg.account))
            /\ \A i \in 1..(Len(ys) - 1) :
                  IF ys[i].path = ys[i + 1].path /\ ys[i].region = ys[i + 1].region
                     /\ ys[i].account = ys[i + 1].account
                  THEN LET returned == Inventory(ys[i].region)
                       IN  IndexIn(returned, ys[i].data) < IndexIn(returned, ys[i + 1].data)
                  ELSE Before(Rank(ys[i].path, ys[i].region, ys[i].account),
                              Rank(ys[i + 1].path, ys[i + 1].region, ys[i + 1].account))
            /\ \A i \in DOMAIN ys :
                  \E k \in DOMAIN cs :
                      /\ cs[k].raised = NoError
                      /\ cs[k].arg.path = ys[i].path
                      /\ cs[k].arg.region = ys[i].region
                      /\ cs[k].arg.account = ys[i].account
            /\ gen[t].status = "done" =>
                  { <<c.arg.path[1], c.arg.path[2], c.arg.region, c.arg.account,
                      c.arg.path[3]>> : c \in Range(cs) } = AllBranches

\* An exhausted traversal over two regions with items and two accounts.
C18_Witness ==
    /\ gen[1].status = "done"
    /\ Len(gen[1].yielded) = 6
    /\ gen[1].yielded[1].account # gen[1].yielded[3].account
    /\ gen[1].yielded[1].region # gen[1].yielded[6].region

=============================================================================
